---- MODULE Spec2Model ----
(***************************************************************************)
(* Timer, TimerActionOnce and TimerActionRepeat of scipio/src/timer.rs.    *)
(*                                                                         *)
(* One behaviour follows one construct (a standalone Timer, one            *)
(* TimerActionOnce or one TimerActionRepeat) from before its construction. *)
(* The executor is single threaded: every poll of a task and every call    *)
(* on the handle is one atomic step.  The reactor's timer table and the    *)
(* task / JoinHandle machinery live in other files of the crate            *)
(* (parking.rs, task/) and are modelled from their contract.               *)
(***************************************************************************)
EXTENDS Integers, FiniteSets, Sequences, TLC

\* ------------------------------------------------------------------ bounds
MaxTime  == 3      \* the clock runs over 0..MaxTime (see Tick)
MaxSteps == 2      \* an action has 1..MaxSteps segments between its awaits
MaxRepeats == 2    \* a stopping generator returns a delay 0..MaxRepeats times

Instants  == 0..MaxTime
Durations == 0..(MaxTime - 1)

None      == "None"
Forever   == MaxRepeats + 1      \* genLimit of a generator that never returns None
\* The delays a generator returns.  They are positive: the first poll of the
\* Timer of an iteration suspends the loop task.
Periods   == Durations \ {0}
TaskWaker == "task"              \* the waker of the spawned task
Wakers    == {"w1", "w2"}        \* contexts that may poll a standalone Timer

VARIABLES
    now,        \* Instant::now()
    timer_id,   \* the reactor's id counter (register_timer)
    timers,     \* the reactor's pending registrations: records [id, when, waker]
    inner,      \* the Inner (TimerState) of the construct's current Timer
    timerAlive, \* TRUE while the Timer value owning `inner` has not been dropped
    kind,       \* "none", "timer", "once", "repeat", "notfound"
    task,       \* [pc, scheduled, closed] of the spawned task (pc alone for kind "timer")
    nsteps,     \* number of segments of the action supplied to do_in_into
    effects,    \* segments of the action executed so far (the tests' shared counter)
    genLimit,   \* the generator returns Some(period) this many times, then None
    genPeriod,  \* the delay the generator returns
    genSuspends,\* TRUE when every generator invocation awaits once before returning
    genCalls,   \* invocations of the generator so far
    handle,     \* "none", "held", "joining", "joined", "dropped"
    joinResult, \* "pending", "None", "Some": what join() has yielded
    started,    \* how many times the action body has been started
    fired,      \* <<>> or <<[at, when, out]>>: the poll in which the last Timer completed
    created,    \* the time of the construction
    origWhen,   \* expiry computed at construction (creation time + duration)
    promised,   \* <<>> or <<[at, until]>>: the latest reset / rearm made while the
                \* await was outstanding: the time of the call, and that time + d
    destroyed,  \* TRUE once destroy() or cancel() has been called
    woken,      \* <<>> or <<w>>: the context the reactor has woken since the
                \* standalone Timer was last polled or reset
    waits,      \* Timers the loop of a TimerActionRepeat has awaited so far
    child,      \* "none", "running", "done": the task the action spawned and detached
    removes     \* "never", "once", "more": the remove_timer calls made so far for
                \* the id of a TimerActionRepeat

vars == <<now, timer_id, timers, inner, timerAlive, kind, task, nsteps, effects,
          genLimit, genPeriod, genSuspends, genCalls, handle, joinResult, started, fired,
          created, origWhen, promised, destroyed, woken, waits, child, removes>>

\* ------------------------------------------------------ reactor (contract)
\* Reactor::register_timer: a fresh id.
Reactor_register_timer(c) == c + 1

\* Reactor::insert_timer: install or replace the registration of `id`.
Reactor_insert_timer(T, id, when, waker) ==
    {r \in T : r.id # id} \cup {[id |-> id, when |-> when, waker |-> waker]}

\* Reactor::remove_timer: drop the registration of `id` if there is one.
Reactor_remove_timer(T, id) == {r \in T : r.id # id}

Registered(T, id) == \E r \in T : r.id = id

\* ------------------------------------------------------- task (contract)
NoTask == [pc |-> "none", scheduled |-> FALSE, closed |-> FALSE]

\* Task::local_into: the spawned task is queued for its first poll.
Task_spawn == [pc |-> "start", scheduled |-> TRUE, closed |-> FALSE]

Finished(t) == t.pc \in {"done", "dropped"}

\* Waker::wake: queue the task unless it completed, was cancelled or is queued.
Waker_wake(t) ==
    IF Finished(t) \/ t.closed \/ t.scheduled THEN t
    ELSE [t EXCEPT !.scheduled = TRUE]

\* JoinHandle::cancel: a cooperative request; a completed or already cancelled
\* task is left alone, any other is marked and queued so that the executor
\* drops its future at the next turn.
JoinHandle_cancel(t) ==
    IF Finished(t) \/ t.closed THEN t
    ELSE [t EXCEPT !.closed = TRUE, !.scheduled = TRUE]

\* JoinHandle::poll: the output once the task completed, None once a
\* cancelled task's future has been dropped, pending otherwise.
JoinHandle_poll(t) ==
    IF t.closed THEN (IF t.scheduled THEN "pending" ELSE "None")
    ELSE IF t.pc = "done" THEN "Some"
    ELSE "pending"

\* --------------------------------------------------------- Inner and Timer
NoInner == [id |-> 0, waker |-> None, when |-> 0]

\* Mutant: the timeout is updated only when a waker is held.
Inner_reset_held(in, T, dur) ==
    IF in.waker = None THEN [inner |-> in, timers |-> T]
    ELSE LET in1 == [in EXCEPT !.when = now + dur]
         IN  [inner |-> in1,
              timers |-> Reactor_insert_timer(Reactor_remove_timer(T, in.id),
                                              in1.id, in1.when, in1.waker)]

\* Mutant: the timer is registered again before the timeout is updated.
Inner_reset_stale(in, T, dur) ==
    LET T1  == IF in.waker # None THEN Reactor_remove_timer(T, in.id) ELSE T
        T2  == IF in.waker # None
               THEN Reactor_insert_timer(T1, in.id, in.when, in.waker)
               ELSE T1
    IN  [inner |-> [in EXCEPT !.when = now + dur], timers |-> T2]

\* Mutant: the registration is removed and not installed again.
Inner_reset_lost(in, T, dur) ==
    LET T1  == IF in.waker # None THEN Reactor_remove_timer(T, in.id) ELSE T
    IN  [inner |-> [in EXCEPT !.when = now + dur], timers |-> T1]

\* Mutant: the timer is registered again even when no waker is held.
Inner_reset_resurrect(in, T, dur) ==
    LET T1  == IF in.waker # None THEN Reactor_remove_timer(T, in.id) ELSE T
        in1 == [in EXCEPT !.when = now + dur]
        w   == IF in1.waker # None THEN in1.waker ELSE TaskWaker
    IN  [inner |-> in1, timers |-> Reactor_insert_timer(T1, in1.id, in1.when, w)]

\* Inner::reset
Inner_reset(in, T, dur) ==
    LET T1  == IF in.waker # None THEN Reactor_remove_timer(T, in.id) ELSE T
        in1 == [in EXCEPT !.when = now + dur]
        T2  == IF in1.waker # None
               THEN Reactor_insert_timer(T1, in1.id, in1.when, in1.waker)
               ELSE T1
    IN  [inner |-> in1, timers |-> T2]

\* Timer::new / Timer::from_id
Timer_from_id(id, dur) == [id |-> id, waker |-> None, when |-> now + dur]

\* Mutant: the drop removes the registration and keeps the waker.
Timer_drop_keep(in, T) ==
    IF in.waker # None
    THEN [inner |-> in, timers |-> Reactor_remove_timer(T, in.id)]
    ELSE [inner |-> in, timers |-> T]

\* Mutant: the drop takes the waker and leaves the registration.
Timer_drop_leak(in, T) == [inner |-> [in EXCEPT !.waker = None], timers |-> T]

\* impl Drop for Timer
Timer_drop(in, T) ==
    IF in.waker # None
    THEN [inner |-> [in EXCEPT !.waker = None], timers |-> Reactor_remove_timer(T, in.id)]
    ELSE [inner |-> in, timers |-> T]

\* Mutant: the expiry test is off by one tick.
Timer_poll_early(in, T, w) ==
    IF now + 1 >= in.when
    THEN [ready |-> TRUE, out |-> <<in.when>>, inner |-> in,
          timers |-> Reactor_remove_timer(T, in.id)]
    ELSE [ready |-> FALSE, out |-> <<>>,
          inner |-> [in EXCEPT !.waker = w],
          timers |-> Reactor_insert_timer(T, in.id, in.when, w)]

\* Mutant: a Pending poll registers the timer and does not store the waker.
Timer_poll_forget(in, T, w) ==
    IF now >= in.when
    THEN [ready |-> TRUE, out |-> <<in.when>>, inner |-> in,
          timers |-> Reactor_remove_timer(T, in.id)]
    ELSE [ready |-> FALSE, out |-> <<>>, inner |-> in,
          timers |-> Reactor_insert_timer(T, in.id, in.when, w)]

\* Mutant: a completing poll yields the time of the poll and leaves the
\* registration.
Timer_poll_now(in, T, w) ==
    IF now >= in.when
    THEN [ready |-> TRUE, out |-> <<now>>, inner |-> in, timers |-> T]
    ELSE [ready |-> FALSE, out |-> <<>>,
          inner |-> [in EXCEPT !.waker = w],
          timers |-> Reactor_insert_timer(T, in.id, in.when, w)]

\* impl Future for Timer: poll
Timer_poll(in, T, w) ==
    IF now >= in.when
    THEN [ready |-> TRUE, out |-> <<in.when>>, inner |-> in,
          timers |-> Reactor_remove_timer(T, in.id)]
    ELSE [ready |-> FALSE, out |-> <<>>,
          inner |-> [in EXCEPT !.waker = w],
          timers |-> Reactor_insert_timer(T, in.id, in.when, w)]

\* `timer.await`: one poll; when it is Ready the Timer value is dropped.
Timer_await(in, T, w) ==
    LET p == Timer_poll(in, T, w)
    IN  IF p.ready
        THEN LET d == Timer_drop(p.inner, p.timers)
             IN  [ready |-> TRUE, out |-> p.out, inner |-> d.inner, timers |-> d.timers]
        ELSE p

\* Mutant: the distance between the instant and now, whichever is later.
FloorDur_abs(when) == IF when > now THEN when - now ELSE now - when

\* The remove_timer calls of one poll (Ready branch), of one drop (a waker is
\* held), and of one `timer.await` step.
Timer_poll_calls(in) == IF now >= in.when THEN 1 ELSE 0

\* Mutant: the drop of a Timer never calls remove_timer.
Timer_drop_calls_none(in) == 0 * Len(<<in>>)

Timer_drop_calls(in) == IF in.waker # None THEN 1 ELSE 0

Timer_await_calls(in) ==
    IF now >= in.when THEN Timer_poll_calls(in) + Timer_drop_calls(in) ELSE 0

\* The count of calls after n more of them.
Called(c, n) ==
    IF n = 0 THEN c
    ELSE IF n = 1 /\ c = "never" THEN "once"
    ELSE "more"

\* The duration of do_at_into / rearm_at: floored to zero for a past instant.
FloorDur(when) == IF when > now THEN when - now ELSE 0

\* ------------------------------------------------------------------- Init
Init ==
    /\ now = 0
    /\ timer_id = 0
    /\ timers = {}
    /\ inner = NoInner
    /\ timerAlive = FALSE
    /\ kind = "none"
    /\ task = NoTask
    /\ nsteps = 0
    /\ effects = 0
    /\ genLimit = 0
    /\ genPeriod = 0
    /\ genSuspends = FALSE
    /\ genCalls = 0
    /\ handle = "none"
    /\ joinResult = "pending"
    /\ started = 0
    /\ fired = <<>>
    /\ created = 0
    /\ origWhen = 0
    /\ promised = <<>>
    /\ destroyed = FALSE
    /\ woken = <<>>
    /\ waits = 0
    /\ child = "none"
    /\ removes = "never"

\* The loop of a TimerActionRepeat with a stopping generator waits on a timer
\* that is still ahead.
LoopTimerAhead ==
    /\ kind = "repeat" /\ genLimit # Forever
    /\ \E r \in timers : r.when > now

\* The clock advances: up to MaxTime, and beyond it as far as the last timers of
\* a loop that is going to stop.
Tick ==
    /\ now < MaxTime \/ LoopTimerAhead
    /\ now' = now + 1
    /\ UNCHANGED <<timer_id, timers, inner, timerAlive, kind, task, nsteps, effects,
                   genLimit, genPeriod, genSuspends, genCalls, handle, joinResult, started, fired,
                   created, origWhen, promised, destroyed, woken, waits, child, removes>>

\* ----------------------------------------------------------- constructors
\* Timer::new(dur), for a Timer polled by hand or awaited on its own.
Timer_new(d) ==
    /\ kind = "none"
    /\ now + d <= MaxTime
    /\ timer_id' = Reactor_register_timer(timer_id)
    /\ inner' = Timer_from_id(timer_id', d)
    /\ timerAlive' = TRUE
    /\ kind' = "timer"
    /\ task' = [NoTask EXCEPT !.pc = "start"]
    /\ created' = now
    /\ origWhen' = now + d
    /\ UNCHANGED <<now, timers, nsteps, effects, genLimit, genPeriod, genSuspends, genCalls,
                   handle, joinResult, started, fired, promised, destroyed, woken, waits,
                   child, removes>>

\* Mutant: the task is spawned whether or not the queue is live.
TimerActionOnce_do_in_into_deferred(d, n, live) ==
    /\ kind = "none"
    /\ now + d <= MaxTime
    /\ timer_id' = Reactor_register_timer(timer_id)
    /\ created' = now
    /\ origWhen' = now + d
    /\ nsteps' = n
    /\ inner' = Timer_from_id(timer_id', d)
    /\ timers' = timers
    /\ timerAlive' = TRUE
    /\ kind' = IF live THEN "once" ELSE "notfound"
    /\ task' = Task_spawn
    /\ handle' = IF live THEN "held" ELSE "none"
    /\ UNCHANGED <<now, effects, genLimit, genPeriod, genSuspends, genCalls, joinResult,
                   started, fired, promised, destroyed, woken, waits, child, removes>>

\* TimerActionOnce::do_in_into(when, action, tq); `n` is the number of segments
\* of `action`, `live` tells whether tq names a live queue.  With a dead queue
\* Task::local_into fails and `?` returns the error: the future, and the Timer
\* in it, are dropped and no handle exists.
TimerActionOnce_do_in_into(d, n, live) ==
    /\ kind = "none"
    /\ now + d <= MaxTime
    /\ timer_id' = Reactor_register_timer(timer_id)
    /\ created' = now
    /\ origWhen' = now + d
    /\ nsteps' = n
    /\ IF live
       THEN /\ inner' = Timer_from_id(timer_id', d)
            /\ timers' = timers
            /\ timerAlive' = TRUE
            /\ kind' = "once"
            /\ task' = Task_spawn
            /\ handle' = "held"
       ELSE LET d0 == Timer_drop(Timer_from_id(timer_id', d), timers)
            IN  /\ inner' = d0.inner
                /\ timers' = d0.timers
                /\ timerAlive' = FALSE
                /\ kind' = "notfound"
                /\ task' = NoTask
                /\ handle' = "none"
    /\ UNCHANGED <<now, effects, genLimit, genPeriod, genSuspends, genCalls, joinResult,
                   started, fired, promised, destroyed, woken, waits, child, removes>>

\* TimerActionOnce::do_at_into(when, action, tq)
TimerActionOnce_do_at_into(when, n, live) ==
    TimerActionOnce_do_in_into(FloorDur(when), n, live)

\* ------------------------------------------------- the spawned task: once
\* The executor runs a task whose cancellation was requested: the future is
\* dropped, and with it the Timer if the task still owns one.
DropFuture ==
    LET d == IF timerAlive THEN Timer_drop(inner, timers)
             ELSE [inner |-> inner, timers |-> timers]
    IN  /\ inner' = d.inner
        /\ timers' = d.timers
        /\ timerAlive' = FALSE
        /\ task' = [task EXCEPT !.pc = "dropped", !.scheduled = FALSE]
        /\ removes' = IF kind = "repeat" /\ timerAlive
                      THEN Called(removes, Timer_drop_calls(inner))
                      ELSE removes
        /\ UNCHANGED <<now, timer_id, kind, nsteps, effects, genLimit, genPeriod, genSuspends,
                       genCalls, handle, joinResult, started, fired, created, origWhen,
                       promised, destroyed, woken, waits, child>>

\* One more segment of the action: up to its next await, or to its end.
ActionSegment(t) ==
    [t EXCEPT !.pc = IF effects + 1 >= nsteps THEN "done" ELSE "action",
              !.scheduled = FALSE]

\* Mutant: a task resumed inside the action runs its future from the top.
OnceFuture_poll_restart ==
    LET a == Timer_await(inner, timers, TaskWaker)
    IN  /\ inner' = a.inner
        /\ timers' = a.timers
        /\ IF a.ready
           THEN /\ timerAlive' = FALSE
                /\ fired' = <<[at |-> now, when |-> inner.when, out |-> a.out]>>
                /\ started' = started + 1
                /\ effects' = effects + 1
                /\ task' = ActionSegment(task)
                /\ child' \in {"none", "running"}
           ELSE /\ task' = [task EXCEPT !.pc = "timer", !.scheduled = FALSE]
                /\ UNCHANGED <<timerAlive, fired, started, effects, child>>

\* A poll of `async move { timer.await; action.await }`.  The first segment of
\* the action may spawn a task on the executor and detach it.
OnceFuture_poll ==
    IF task.pc \in {"start", "timer"}
    THEN LET a == Timer_await(inner, timers, TaskWaker)
         IN  /\ inner' = a.inner
             /\ timers' = a.timers
             /\ IF a.ready
                THEN /\ timerAlive' = FALSE
                     /\ fired' = <<[at |-> now, when |-> inner.when, out |-> a.out]>>
                     /\ started' = started + 1
                     /\ effects' = effects + 1
                     /\ task' = ActionSegment(task)
                     /\ child' \in {"none", "running"}
                ELSE /\ task' = [task EXCEPT !.pc = "timer", !.scheduled = FALSE]
                     /\ UNCHANGED <<timerAlive, fired, started, effects, child>>
    ELSE /\ task.pc = "action"
         /\ effects' = effects + 1
         /\ task' = ActionSegment(task)
         /\ UNCHANGED <<inner, timers, timerAlive, fired, started, child>>

\* The executor takes the task of a TimerActionOnce from its queue.
RunOnce ==
    /\ kind = "once"
    /\ task.scheduled
    /\ IF task.closed
       THEN DropFuture
       ELSE /\ OnceFuture_poll
            /\ UNCHANGED <<now, timer_id, kind, nsteps, genLimit, genPeriod, genSuspends, genCalls,
                           handle, joinResult, created, origWhen, promised, destroyed,
                           woken, waits, removes>>

\* The executor runs the task the action spawned and detached, to its end.
ChildRun ==
    /\ kind = "once" /\ child = "running"
    /\ child' = "done"
    /\ UNCHANGED <<now, timer_id, timers, inner, timerAlive, kind, task, nsteps, effects,
                   genLimit, genPeriod, genSuspends, genCalls, handle, joinResult, started,
                   fired, created, origWhen, promised, destroyed, woken, waits, removes>>

\* What the action awaits between two segments becomes ready and wakes the task.
ActionWake ==
    /\ kind \in {"once", "repeat"}
    /\ task.pc = "action"
    /\ ~task.scheduled /\ ~task.closed
    /\ task' = Waker_wake(task)
    /\ UNCHANGED <<now, timer_id, timers, inner, timerAlive, kind, nsteps, effects,
                   genLimit, genPeriod, genSuspends, genCalls, handle, joinResult, started, fired,
                   created, origWhen, promised, destroyed, woken, waits, child, removes>>

\* ------------------------------------------------------ standalone Timer
\* A poll of the Timer from context `w`; a poll may come at any time.  When the
\* poll is Ready the await is over and the Timer value is dropped.
TimerPoll(w) ==
    /\ kind = "timer" /\ timerAlive
    /\ LET a == Timer_await(inner, timers, w)
       IN  /\ inner' = a.inner
           /\ timers' = a.timers
           /\ timerAlive' = ~a.ready
           /\ task' = [task EXCEPT !.pc = IF a.ready THEN "done" ELSE "timer"]
           /\ fired' = IF a.ready
                       THEN <<[at |-> now, when |-> inner.when, out |-> a.out]>>
                       ELSE fired
    /\ woken' = <<>>
    /\ UNCHANGED <<now, timer_id, kind, nsteps, effects, genLimit, genPeriod, genSuspends,
                   genCalls, handle, joinResult, started, created, origWhen, promised,
                   destroyed, waits, child, removes>>

\* Timer::reset
Timer_reset(d) ==
    /\ kind = "timer" /\ timerAlive
    /\ now + d <= MaxTime
    /\ LET r == Inner_reset(inner, timers, d)
       IN  /\ inner' = r.inner
           /\ timers' = r.timers
    /\ promised' = <<[at |-> now, until |-> now + d]>>
    /\ woken' = <<>>
    /\ UNCHANGED <<now, timer_id, timerAlive, kind, task, nsteps, effects, genLimit,
                   genPeriod, genSuspends, genCalls, handle, joinResult, started,
                   fired, created, origWhen, destroyed, waits, child, removes>>

\* The Timer is dropped before it completed.
TimerDrop ==
    /\ kind = "timer" /\ timerAlive
    /\ LET d == Timer_drop(inner, timers)
       IN  /\ inner' = d.inner
           /\ timers' = d.timers
    /\ timerAlive' = FALSE
    /\ task' = [task EXCEPT !.pc = "dropped"]
    /\ UNCHANGED <<now, timer_id, kind, nsteps, effects, genLimit, genPeriod,
                   genSuspends, genCalls, handle, joinResult, started, fired,
                   created, origWhen, promised, destroyed, woken, waits, child, removes>>

\* ----------------------------------------------- the spawned task: repeat
\* TimerActionRepeat::repeat_into(action_gen, tq).  The generator returns
\* Some(period) `limit` times and then None (never None when limit = Forever);
\* `susp` tells whether each invocation awaits once before it returns.
TimerActionRepeat_repeat_into(limit, period, susp, live) ==
    /\ kind = "none"
    /\ timer_id' = Reactor_register_timer(timer_id)
    /\ genLimit' = limit
    /\ genPeriod' = period
    /\ genSuspends' = susp
    /\ kind' = IF live THEN "repeat" ELSE "notfound"
    /\ task' = IF live THEN Task_spawn ELSE NoTask
    /\ handle' = IF live THEN "held" ELSE "none"
    /\ created' = now
    /\ UNCHANGED <<now, timers, inner, timerAlive, nsteps, effects, genCalls,
                   joinResult, started, fired, origWhen, promised, destroyed, woken, waits,
                   child, removes>>

\* The loop state a poll of the loop task works on.
LoopView == [inner |-> inner, timers |-> timers, alive |-> timerAlive,
             genCalls |-> genCalls, task |-> task, fired |-> fired, waits |-> waits,
             removes |-> removes]

\* Mutant: every iteration waits on a Timer with an id of its own.
Loop_afterGen_fresh(L) ==
    IF genLimit # Forever /\ L.genCalls > genLimit
    THEN [L EXCEPT !.task = [pc |-> "done", scheduled |-> FALSE, closed |-> L.task.closed]]
    ELSE LET a == Timer_await(Timer_from_id(timer_id + L.genCalls, genPeriod),
                              L.timers, TaskWaker)
         IN  [L EXCEPT !.inner = a.inner, !.timers = a.timers, !.alive = ~a.ready,
                       !.waits = @ + 1,
                       !.fired = IF a.ready
                                 THEN <<[at |-> now, when |-> now + genPeriod, out |-> a.out]>>
                                 ELSE @,
                       !.task = [pc |-> IF a.ready THEN "start" ELSE "timer",
                                 scheduled |-> a.ready, closed |-> L.task.closed]]

\* Mutant: the loop ends at the generator's last delay instead of awaiting it.
Loop_afterGen_early(L) ==
    IF genLimit # Forever /\ L.genCalls >= genLimit
    THEN [L EXCEPT !.task = [pc |-> "done", scheduled |-> FALSE, closed |-> L.task.closed]]
    ELSE LET a == Timer_await(Timer_from_id(timer_id, genPeriod), L.timers, TaskWaker)
         IN  [L EXCEPT !.inner = a.inner, !.timers = a.timers, !.alive = ~a.ready,
                       !.waits = @ + 1,
                       !.fired = IF a.ready
                                 THEN <<[at |-> now, when |-> now + genPeriod, out |-> a.out]>>
                                 ELSE @,
                       !.task = [pc |-> IF a.ready THEN "start" ELSE "timer",
                                 scheduled |-> a.ready, closed |-> L.task.closed]]

\* The generator has returned: `break` on None, otherwise
\* Timer::from_id(timer_id, period).await, whose first poll suspends the task.
Loop_afterGen(L) ==
    IF genLimit # Forever /\ L.genCalls > genLimit
    THEN [L EXCEPT !.task = [pc |-> "done", scheduled |-> FALSE, closed |-> L.task.closed]]
    ELSE LET a == Timer_await(Timer_from_id(timer_id, genPeriod), L.timers, TaskWaker)
         IN  [L EXCEPT !.inner = a.inner, !.timers = a.timers, !.alive = ~a.ready,
                       !.waits = @ + 1,
                       !.removes = Called(@, Timer_await_calls(Timer_from_id(timer_id,
                                                                             genPeriod))),
                       !.fired = IF a.ready
                                 THEN <<[at |-> now, when |-> now + genPeriod, out |-> a.out]>>
                                 ELSE @,
                       !.task = [pc |-> IF a.ready THEN "start" ELSE "timer",
                                 scheduled |-> a.ready, closed |-> L.task.closed]]

\* `action_gen().await`: the generator is invoked; it either awaits something
\* or returns at once.
Loop_callGen(L) ==
    LET L1 == [L EXCEPT !.genCalls = @ + 1]
    IN  IF genSuspends
        THEN [L1 EXCEPT !.task = [pc |-> "action", scheduled |-> FALSE, closed |-> L.task.closed]]
        ELSE Loop_afterGen(L1)

\* A poll of the loop future of repeat_into.
RepeatFuture_poll(L) ==
    IF L.task.pc = "start" THEN Loop_callGen(L)
    ELSE IF L.task.pc = "action" THEN Loop_afterGen(L)
    ELSE LET a == Timer_await(L.inner, L.timers, TaskWaker)
         IN  IF a.ready
             THEN Loop_callGen([L EXCEPT !.inner = a.inner, !.timers = a.timers,
                                         !.alive = FALSE,
                                         !.removes = Called(@, Timer_await_calls(L.inner)),
                                         !.fired = <<[at |-> now, when |-> L.inner.when,
                                                      out |-> a.out]>>])
             ELSE [L EXCEPT !.inner = a.inner, !.timers = a.timers,
                            !.task = [pc |-> "timer", scheduled |-> FALSE,
                                      closed |-> L.task.closed]]

\* The executor takes the loop task of a TimerActionRepeat from its queue.
RunRepeat ==
    /\ kind = "repeat"
    /\ task.scheduled
    /\ IF task.closed
       THEN DropFuture
       ELSE LET L == RepeatFuture_poll(LoopView)
            IN  /\ inner' = L.inner
                /\ timers' = L.timers
                /\ timerAlive' = L.alive
                /\ genCalls' = L.genCalls
                /\ task' = L.task
                /\ fired' = L.fired
                /\ waits' = L.waits
                /\ removes' = L.removes
                /\ UNCHANGED <<now, timer_id, kind, nsteps, effects, genLimit, genPeriod,
                               genSuspends, handle, joinResult, started, created, origWhen,
                               promised, destroyed, woken, child>>

\* ---------------------------------------------------------------- reactor
\* The reactor processes its timers: a registration whose expiry has passed is
\* removed and its waker invoked: the spawned task is queued, the context that
\* polled a standalone Timer is recorded as woken.
ReactorFire ==
    \E r \in timers :
        /\ r.when <= now
        /\ timers' = timers \ {r}
        /\ task' = IF r.waker = TaskWaker THEN Waker_wake(task) ELSE task
        /\ woken' = IF r.waker = TaskWaker THEN woken ELSE <<r.waker>>
        /\ UNCHANGED <<now, timer_id, inner, timerAlive, kind, nsteps, effects,
                       genLimit, genPeriod, genSuspends, genCalls, handle, joinResult, started,
                       fired, created, origWhen, promised, destroyed, waits, child, removes>>

\* ------------------------------------------------- TimerActionOnce handle
\* The part of the state destroy() acts on.
HandleView == [id |-> IF kind = "repeat" THEN timer_id ELSE inner.id,
               timers |-> timers, inner |-> inner, task |-> task, child |-> child]

\* Mutant: the task is cancelled only when there was no registration to remove.
TimerActionOnce_destroy_either(s) ==
    IF Registered(s.timers, s.inner.id)
    THEN [s EXCEPT !.timers = Reactor_remove_timer(s.timers, s.inner.id)]
    ELSE [s EXCEPT !.task = JoinHandle_cancel(s.task)]

\* Mutant: the task is marked cancelled and queued even when it has completed.
TimerActionOnce_destroy_force(s) ==
    [s EXCEPT !.timers = Reactor_remove_timer(s.timers, s.inner.id),
              !.task = [@ EXCEPT !.closed = TRUE, !.scheduled = TRUE]]

\* Mutant: the registration is removed but the task is not cancelled.
TimerActionOnce_destroy_nocancel(s) ==
    [s EXCEPT !.timers = Reactor_remove_timer(s.timers, s.inner.id)]

\* Mutant: the cancellation reaches the task the action spawned, too.
TimerActionOnce_destroy_all(s) ==
    [s EXCEPT !.timers = Reactor_remove_timer(s.timers, s.inner.id),
              !.task = JoinHandle_cancel(s.task),
              !.child = IF @ = "running" THEN "dropped" ELSE @]

\* TimerActionOnce::destroy
TimerActionOnce_destroy(s) ==
    [s EXCEPT !.timers = Reactor_remove_timer(s.timers, s.inner.id),
              !.task = JoinHandle_cancel(s.task)]

\* Mutant: the registration is removed but the loop task is not cancelled.
TimerActionRepeat_destroy_nocancel(s) ==
    [s EXCEPT !.timers = Reactor_remove_timer(s.timers, s.id)]

\* TimerActionRepeat::destroy
TimerActionRepeat_destroy(s) ==
    [s EXCEPT !.timers = Reactor_remove_timer(s.timers, s.id),
              !.task = JoinHandle_cancel(s.task)]

\* TimerActionOnce::join: the handle's result, passed through.
TimerActionOnce_join(t) == JoinHandle_poll(t)

\* Mutant: join() yields None as soon as the cancellation has been requested.
TimerActionRepeat_join_eager(t) ==
    IF t.closed THEN "None"
    ELSE IF JoinHandle_poll(t) = "Some" THEN "Some" ELSE JoinHandle_poll(t)

\* Mutant: join() yields Some(()) whenever the handle resolves.
TimerActionRepeat_join_always(t) ==
    IF JoinHandle_poll(t) = "pending" THEN "pending" ELSE "Some"

\* TimerActionRepeat::join: Some(()) for any output, None otherwise.
TimerActionRepeat_join(t) ==
    IF JoinHandle_poll(t) = "Some" THEN "Some" ELSE JoinHandle_poll(t)

destroy(s) == IF kind = "repeat" THEN TimerActionRepeat_destroy(s)
              ELSE TimerActionOnce_destroy(s)

join(t) == IF kind = "repeat" THEN TimerActionRepeat_join(t)
           ELSE TimerActionOnce_join(t)

HasHandle == kind \in {"once", "repeat"}

\* The outstanding await of the Timer inside the task.
AwaitOutstanding == task.pc \in {"start", "timer"} /\ ~task.closed

\* destroy() of either handle.
Destroy ==
    /\ HasHandle /\ handle = "held"
    /\ LET s == destroy(HandleView)
       IN  /\ timers' = s.timers
           /\ inner' = s.inner
           /\ task' = s.task
           /\ child' = s.child
    /\ removes' = IF kind = "repeat" THEN Called(removes, 1) ELSE removes
    /\ destroyed' = TRUE
    /\ UNCHANGED <<now, timer_id, timerAlive, kind, nsteps, effects, genLimit,
                   genPeriod, genSuspends, genCalls, handle, joinResult, started, fired,
                   created, origWhen, promised, woken, waits>>

\* TimerActionOnce::rearm_in
RearmIn(d) ==
    /\ kind = "once" /\ handle = "held"
    /\ now + d <= MaxTime
    /\ LET r == Inner_reset(inner, timers, d)
       IN  /\ inner' = r.inner
           /\ timers' = r.timers
    /\ promised' = IF AwaitOutstanding
                   THEN <<[at |-> now, until |-> now + d]>>
                   ELSE promised
    /\ UNCHANGED <<now, timer_id, timerAlive, kind, task, nsteps, effects, genLimit,
                   genPeriod, genSuspends, genCalls, handle, joinResult, started, fired,
                   created, origWhen, destroyed, woken, waits, child, removes>>

\* TimerActionOnce::rearm_at
RearmAt(when) == RearmIn(FloorDur(when))

\* TimerActionOnce::join, from the call to the first poll of the returned
\* future.  join(self) consumes the handle.
Join ==
    /\ HasHandle /\ handle = "held"
    /\ joinResult' = join(task)
    /\ handle' = IF joinResult' = "pending" THEN "joining" ELSE "joined"
    /\ UNCHANGED <<now, timer_id, timers, inner, timerAlive, kind, task, nsteps,
                   effects, genLimit, genPeriod, genSuspends, genCalls, started, fired,
                   created, origWhen, promised, destroyed, woken, waits, child, removes>>

\* A later poll of the future of join(), once the task has notified its awaiter.
JoinPoll ==
    /\ HasHandle /\ handle = "joining"
    /\ join(task) # "pending"
    /\ joinResult' = join(task)
    /\ handle' = "joined"
    /\ UNCHANGED <<now, timer_id, timers, inner, timerAlive, kind, task, nsteps,
                   effects, genLimit, genPeriod, genSuspends, genCalls, started, fired,
                   created, origWhen, promised, destroyed, woken, waits, child, removes>>

\* TimerActionOnce::cancel, from the call to the first poll of its future:
\* destroy(), then the first poll of join().
Cancel ==
    /\ HasHandle /\ handle = "held"
    /\ LET s == destroy(HandleView)
       IN  /\ timers' = s.timers
           /\ inner' = s.inner
           /\ task' = s.task
           /\ child' = s.child
           /\ joinResult' = join(s.task)
    /\ handle' = IF joinResult' = "pending" THEN "joining" ELSE "joined"
    /\ removes' = IF kind = "repeat" THEN Called(removes, 1) ELSE removes
    /\ destroyed' = TRUE
    /\ UNCHANGED <<now, timer_id, timerAlive, kind, nsteps, effects, genLimit,
                   genPeriod, genSuspends, genCalls, started, fired, created, origWhen,
                   promised, woken, waits>>

\* The caller drops the handle without joining.
HandleDrop ==
    /\ kind \in {"once", "repeat"} /\ handle = "held"
    /\ handle' = "dropped"
    /\ UNCHANGED <<now, timer_id, timers, inner, timerAlive, kind, task, nsteps,
                   effects, genLimit, genPeriod, genSuspends, genCalls, joinResult, started,
                   fired, created, origWhen, promised, destroyed, woken, waits, child, removes>>

Next ==
    \/ Tick
    \/ \E d \in Durations : Timer_new(d)
    \/ \E d \in Durations, n \in 1..MaxSteps, live \in BOOLEAN :
           TimerActionOnce_do_in_into(d, n, live)
    \/ \E w \in Instants, n \in 1..MaxSteps, live \in BOOLEAN :
           TimerActionOnce_do_at_into(w, n, live)
    \/ \E w \in Wakers : TimerPoll(w)
    \/ \E d \in Durations : Timer_reset(d)
    \/ TimerDrop
    \/ \E limit \in 0..Forever, period \in Periods, susp \in BOOLEAN, live \in BOOLEAN :
           TimerActionRepeat_repeat_into(limit, period, susp, live)
    \/ RunOnce
    \/ ChildRun
    \/ RunRepeat
    \/ ActionWake
    \/ ReactorFire
    \/ Destroy
    \/ \E d \in Durations : RearmIn(d)
    \/ \E w \in Instants : RearmAt(w)
    \/ Join
    \/ JoinPoll
    \/ Cancel
    \/ HandleDrop

Spec == Init /\ [][Next]_vars

\* The executor polls every queued task, the reactor processes its timers and
\* an awaiting caller is polled once notified.
FairExec ==
    /\ Spec
    /\ WF_vars(RunOnce) /\ WF_vars(RunRepeat)
    /\ WF_vars(ReactorFire)
    /\ WF_vars(JoinPoll)

\* Moreover time passes, and what an action awaits becomes ready.
FairSpec ==
    /\ FairExec
    /\ WF_vars(Tick)
    /\ WF_vars(ActionWake)

\* The executor runs a detached task that is ready.
FairChild == Spec /\ WF_vars(ChildRun)

\* ------------------------------------------------------------------ claims
\* C1: a Timer's poll returns Ready only when the current time is at or after
\* the Timer's current expiry; a standalone Timer created with duration d > 0
\* and never reset does not complete before creation time + d, however often
\* and however early it is polled.
C1_TimerNotEarly ==
    /\ fired # <<>> => fired[1].at >= fired[1].when
    /\ (kind = "timer" /\ task.pc = "done" /\ promised = <<>>) =>
           fired[1].at >= origWhen

\* A standalone Timer with d > 0 was polled before its expiry and later completed.
C1_Witness ==
    /\ kind = "timer" /\ task.pc = "done" /\ promised = <<>>
    /\ origWhen > created
    /\ fired[1].at = origWhen

\* C2: for a TimerActionOnce, under every interleaving of reactor firing, task
\* polls, rearm_in / rearm_at, destroy and join, the action body is started at
\* most once, and never at a time earlier than the expiry the shared Inner
\* holds at the moment the timer await resolves.
C2_OnceAtMostOnceNotEarly ==
    kind = "once" =>
        /\ started <= 1
        /\ started = 0 => effects = 0
        /\ started = 1 => (fired # <<>> /\ fired[1].at >= fired[1].when)

\* The action ran once after a rearm had changed the expiry, and the handle
\* was destroyed and joined afterwards.
C2_Witness ==
    /\ kind = "once" /\ started = 1 /\ effects = nsteps
    /\ promised # <<>> /\ fired[1].when # origWhen
    /\ destroyed /\ handle = "joined"

\* C3: a TimerActionOnce scheduled on a live queue and never destroyed or
\* cancelled eventually runs its action, exactly once and to its end, after the
\* expiry, whether the caller keeps the handle or drops it without joining;
\* a join() of the handle yields Some(result).
C3_EventuallyRunsOnce ==
    /\ [](kind = "once" =>
            <>(destroyed \/ (task.pc = "done" /\ started = 1 /\ effects = nsteps)))
    /\ []((kind = "once" /\ handle = "joining") =>
            <>(destroyed \/ joinResult = "Some"))
    /\ []((kind = "once" /\ ~destroyed) =>
            /\ joinResult # "None"
            /\ task.pc = "done" => (started = 1 /\ fired[1].at >= fired[1].when))

\* The handle was dropped without a join or a destroy and the action, scheduled
\* with a positive delay, ran to its end at its expiry.
C3_Witness ==
    /\ kind = "once" /\ handle = "dropped" /\ ~destroyed
    /\ task.pc = "done" /\ started = 1 /\ effects = nsteps
    /\ origWhen > created /\ fired[1].at >= origWhen

\* destroy() or cancel() was called on a TimerActionOnce whose timer await had
\* not resolved.
DestroyedEarly == kind = "once" /\ destroyed /\ started = 0

\* C4: if destroy() is called on a TimerActionOnce before its timer await has
\* resolved, the action body never starts at any later time, and a subsequent
\* join() resolves to None, whether or not the clock ever reaches the expiry.
C4_DestroyBeforeFire ==
    /\ [][DestroyedEarly => (started' = 0 /\ effects' = 0)]_vars
    /\ [](DestroyedEarly => joinResult # "Some")
    /\ []((DestroyedEarly /\ handle = "joining") => <>(joinResult = "None"))

\* join() yielded None before the clock reached the expiry of a destroyed action.
C4_Witness ==
    /\ DestroyedEarly /\ handle = "joined" /\ joinResult = "None"
    /\ task.pc = "dropped"
    /\ now < origWhen /\ now < inner.when

\* C5: cancel() (destroy() followed by join()) on a TimerActionOnce or a
\* TimerActionRepeat always terminates: whatever state the spawned task is in
\* (never polled, suspended on the timer, suspended inside the action or the
\* generator, already finished), the awaited cancel() eventually resolves under
\* a fair executor, whether or not the clock advances.
C5_CancelTerminates ==
    []((HasHandle /\ destroyed /\ handle = "joining") => <>(handle = "joined"))

\* cancel() resolved on a loop task that was suspended inside its first
\* generator invocation, of a generator that never returns None.
C5_Witness ==
    /\ kind = "repeat" /\ genLimit = Forever /\ genSuspends
    /\ destroyed /\ handle = "joined" /\ joinResult = "None"
    /\ task.pc = "dropped" /\ genCalls = 1 /\ inner = NoInner

\* destroy() or cancel() has been called and the task of the TimerActionOnce is
\* suspended at an await inside the action, with further segments ahead.
DestroyedInAction == kind = "once" /\ destroyed /\ task.pc = "action"

ActionCompleted == kind = "once" /\ task.pc = "done"

\* C7: if the action of a TimerActionOnce has already run to completion when
\* destroy() or cancel() is called, the call undoes nothing: the task stays
\* completed, the action's effects stay, and join() (the one inside cancel()
\* too) resolves to the result the action produced, not to None.
C7_DestroyAfterCompletion ==
    /\ [][ActionCompleted => (task' = task /\ effects' = effects)]_vars
    /\ [](ActionCompleted => (effects = nsteps /\ joinResult # "None"))
    /\ []((ActionCompleted /\ handle = "joining") => <>(joinResult = "Some"))

\* destroy() found the task completed (it is not marked cancelled) and the
\* join() after it yielded the action's result.
C7_Witness ==
    /\ ActionCompleted /\ destroyed /\ ~task.closed
    /\ effects = nsteps
    /\ handle = "joined" /\ joinResult = "Some"

\* C8: destroy() is idempotent and never fails: in every reachable state in
\* which a handle is held (before the first poll, while waiting on the timer,
\* while the action or generator is suspended, after natural completion, after
\* an earlier destroy()), a second call right after a first one leaves the
\* reactor's registrations, the Inner and the task exactly as the first left
\* them; the first leaves no registration for the id and the Inner untouched.
C8_DestroyIdempotent ==
    (HasHandle /\ handle = "held") =>
        LET s1 == destroy(HandleView)
        IN  /\ destroy(s1) = s1
            /\ ~Registered(s1.timers, s1.id)
            /\ s1.inner = inner
            /\ Finished(s1.task) \/ s1.task.closed

\* A handle destroyed while its task waited on a registered timer: the task is
\* cancelled and queued, the registration is gone, and destroy() can be called
\* again.
C8_Witness ==
    /\ HasHandle /\ handle = "held" /\ destroyed
    /\ task.pc = "timer" /\ task.closed /\ task.scheduled
    /\ inner.waker # None /\ timers = {}
    /\ destroy(HandleView) = HandleView

\* The task of the TimerActionOnce is suspended in the timer await, holds a
\* waker and has not been cancelled.
SuspendedOnTimer ==
    /\ kind = "once" /\ task.pc = "timer" /\ ~task.closed
    /\ inner.waker # None

\* The expiry of the awaited timer has been reached.
TimerDue ==
    /\ kind = "once" /\ task.pc = "timer" /\ ~task.closed
    /\ inner.when <= now

\* C9: rearm_at(instant <= now) (or rearm_in(0)) on a TimerActionOnce whose
\* task is suspended in the timer await with a waker held makes the expiry the
\* current time and registers the id again at that expiry with the same waker;
\* the action then starts with no further advance of the clock (unless the
\* handle is destroyed or rearmed to a later time first), that is, before the
\* originally scheduled expiry.
C9_RearmToPastFiresNow ==
    /\ [][(SuspendedOnTimer /\ \E w \in 0..now : RearmAt(w)) =>
            /\ inner' = [inner EXCEPT !.when = now]
            /\ timers' = {[id |-> inner.id, when |-> now, waker |-> inner.waker]}
            /\ task' = task]_vars
    /\ [](TimerDue => <>(started = 1 \/ destroyed \/ inner.when > now))

\* A rearm to the current time has just acted on a task that was suspended in
\* the timer await (a poll after the rearm would have been Ready): the id is
\* registered at the current time, before the expiry it was scheduled with.
C9_Witness ==
    /\ SuspendedOnTimer /\ ~task.scheduled /\ ~destroyed
    /\ promised = <<[at |-> now, until |-> now]>>
    /\ inner.when = now /\ now < origWhen
    /\ timers = {[id |-> inner.id, when |-> now, waker |-> TaskWaker]}

\* C10: if rearm_in(d) is called on a TimerActionOnce while its timer await is
\* still outstanding (before the task's first poll, when no waker is held yet;
\* while it is suspended; after the reactor fired the old registration and
\* before the task was polled again), the action does not start before the
\* time of the call + d, and, unless the handle is destroyed, it still
\* eventually starts.
C10_RearmInDelays ==
    /\ []((kind = "once" /\ started = 1 /\ promised # <<>>) =>
            fired[1].at >= promised[1].until)
    /\ []((kind = "once" /\ promised # <<>>) => <>(started = 1 \/ destroyed))

\* The handle was rearmed with a positive delay after the original expiry had
\* passed, and the action started when the new expiry was reached.
C10_Witness ==
    /\ kind = "once" /\ started = 1 /\ ~destroyed
    /\ promised # <<>>
    /\ promised[1].at >= origWhen /\ promised[1].until > promised[1].at
    /\ fired[1].at = promised[1].until

\* The timer await of the TimerActionOnce has resolved: the action is running,
\* suspended at one of its awaits, finished, or was cancelled after it started.
AwaitResolved == kind = "once" /\ started = 1

\* C11: rearm_in / rearm_at called after the timer await of a TimerActionOnce
\* has resolved is inert: it installs no registration for the id (none is
\* pending in any such state), it leaves the task as it is (not woken, not
\* queued, not restarted), the effects of the action and what join() yields
\* are unchanged, and of the shared Inner only the expiry changes; the action
\* still runs to its end unless the handle is destroyed.
C11_RearmAfterFireInert ==
    /\ [][(AwaitResolved /\ ((\E d \in Durations : RearmIn(d))
                             \/ (\E w \in Instants : RearmAt(w)))) =>
            /\ timers' = timers
            /\ task' = task
            /\ started' = started /\ effects' = effects
            /\ joinResult' = joinResult /\ join(task') = join(task)
            /\ inner'.id = inner.id /\ inner'.waker = inner.waker]_vars
    /\ [](AwaitResolved => (inner.waker = None /\ ~Registered(timers, inner.id)))
    /\ [](AwaitResolved => <>(destroyed \/ (task.pc = "done" /\ effects = nsteps)))

\* The handle was rearmed to a later expiry while the action was suspended at
\* one of its awaits: the expiry field moved, nothing is registered.
C11_Witness ==
    /\ AwaitResolved /\ task.pc = "action" /\ ~task.scheduled /\ ~destroyed
    /\ handle = "held"
    /\ inner.when > fired[1].when /\ inner.when > now
    /\ inner.waker = None /\ timers = {}

\* A constructor was called with a queue that is not live and returned
\* Err(QueueNotFoundError).
QueueNotFound == kind = "notfound"

\* C12: when the target queue is not live, do_in_into / do_at_into /
\* repeat_into fail in the constructor call itself: that call leaves no task,
\* no handle and no live Timer, and in every later state no task exists, the
\* action and the generator have not run, and the reactor holds no
\* registration for the id that was allocated.
C12_QueueNotFound ==
    /\ [][((\E d \in Durations, n \in 1..MaxSteps : TimerActionOnce_do_in_into(d, n, FALSE))
           \/ (\E w \in Instants, n \in 1..MaxSteps : TimerActionOnce_do_at_into(w, n, FALSE))
           \/ (\E limit \in 0..Forever, period \in Periods, susp \in BOOLEAN :
                  TimerActionRepeat_repeat_into(limit, period, susp, FALSE))) =>
            (QueueNotFound' /\ task' = NoTask /\ handle' = "none" /\ ~timerAlive')]_vars
    /\ [][QueueNotFound => QueueNotFound']_vars
    /\ [](QueueNotFound =>
            /\ task = NoTask /\ handle = "none" /\ ~timerAlive
            /\ started = 0 /\ effects = 0 /\ genCalls = 0
            /\ joinResult = "pending"
            /\ timer_id = 1 /\ ~Registered(timers, timer_id))

\* do_in_into failed on a dead queue, and the clock has since passed the expiry
\* the action was to run at: nothing ran and nothing is registered.
C12_Witness ==
    /\ QueueNotFound /\ nsteps > 0
    /\ origWhen > created /\ now > origWhen
    /\ effects = 0 /\ timers = {}

\* The standalone Timer has been polled Pending and not completed or dropped:
\* it holds the waker of the context that polled it last.
TimerSuspended == kind = "timer" /\ timerAlive /\ inner.waker # None

\* C13: Timer::reset(d) on a Timer that was polled Pending (waker held) sets
\* the expiry to now + d and leaves exactly one registration of the id, at the
\* new expiry and with the stored waker; afterwards the Timer does not
\* complete before the new expiry, the waiting context is not woken before it,
\* and the context woken is the one whose waker is stored: it is registered
\* until it is woken, and it is eventually woken unless the Timer completes
\* or is dropped first.
C13_ResetKeepsWaiter ==
    /\ [][\A d \in Durations : (TimerSuspended /\ Timer_reset(d)) =>
            /\ inner' = [inner EXCEPT !.when = now + d]
            /\ timers' = {[id |-> inner.id, when |-> now + d, waker |-> inner.waker]}]_vars
    /\ []((kind = "timer" /\ task.pc = "done" /\ promised # <<>>) =>
            fired[1].at >= promised[1].until)
    /\ []((TimerSuspended /\ promised # <<>>) =>
            IF woken = <<>>
            THEN timers = {[id |-> inner.id, when |-> promised[1].until,
                            waker |-> inner.waker]}
            ELSE woken = <<inner.waker>> /\ now >= promised[1].until)
    /\ []((TimerSuspended /\ promised # <<>>) =>
            <>(~timerAlive \/ woken = <<inner.waker>>))

\* A Timer polled Pending was reset to the current time, earlier than the
\* expiry it was created with (a poll after the reset would have completed
\* it), and the reactor has woken the context that had polled it.
C13_Witness ==
    /\ TimerSuspended /\ now < origWhen
    /\ promised = <<[at |-> now, until |-> now]>>
    /\ inner.when = now
    /\ woken = <<inner.waker>> /\ timers = {}

\* C14 as stated: in every reachable state the id of the construct is
\* registered in the reactor's pending set if and only if the waker field of
\* its Inner is Some.
C14_RegisteredIffWaker ==
    kind \in {"timer", "once", "repeat"} =>
        (Registered(timers, timer_id) <=> inner.waker # None)

\* C14, amended: in every reachable state the id is registered only if the
\* waker field of the Inner is Some; the waker is None before the first poll
\* and once the Timer has been dropped (its await resolved, or the future of
\* the cancelled task was dropped).  The converse does not hold: the waker
\* stays Some, with no registration, after the reactor fired the timer and
\* after destroy() removed the registration, until the Timer is dropped.
C14_RegisteredOnlyWithWaker ==
    /\ Registered(timers, timer_id) => (inner.id = timer_id /\ inner.waker # None)
    /\ (kind \in {"timer", "once"} /\ task.pc = "start") => inner.waker = None
    /\ (kind # "none" /\ ~timerAlive) => inner.waker = None

\* The reactor fired the timer of a TimerActionOnce and queued its task; the
\* waker was still stored, and a rearm made before the task was polled has
\* registered the id again with it.
C14_Witness ==
    /\ kind = "once" /\ task.pc = "timer" /\ task.scheduled /\ ~task.closed
    /\ timerAlive /\ inner.waker = TaskWaker
    /\ timers = {[id |-> timer_id, when |-> inner.when, waker |-> TaskWaker]}

\* C15: in every reachable state the reactor holds at most one pending
\* registration per timer id.  A construct registers under the one id it
\* allocated (a TimerActionRepeat under the same id in every iteration), so
\* the reactor holds at most one registration in all, after repeated Pending
\* polls, after reset / rearm, and across the iterations of the loop.
C15_OneRegistrationPerId ==
    /\ \A r1 \in timers, r2 \in timers : r1.id = r2.id => r1 = r2
    /\ \A r \in timers : r.id = timer_id
    /\ Cardinality(timers) <= 1

\* The loop of a TimerActionRepeat waits in its second iteration: the id is
\* registered again, once, at the expiry of the second Timer.
C15_Witness ==
    /\ kind = "repeat" /\ genCalls = 2 /\ task.pc = "timer" /\ ~task.closed
    /\ fired # <<>> /\ inner.when > fired[1].when
    /\ timers = {[id |-> timer_id, when |-> inner.when, waker |-> TaskWaker]}

\* C16: no reactor registration outlives its owning Timer: in every reachable
\* state, if the id is registered then the Timer is still alive (it has not
\* completed and been dropped, nor been dropped with the future of a cancelled
\* task); the drop of a Timer that holds a waker removes the registration and
\* clears the waker, and the drop of a Timer that holds none leaves the
\* reactor's registrations as they are.
C16_NoRegistrationOutlivesTimer ==
    /\ [](timers # {} => timerAlive)
    /\ [](timerAlive =>
            LET d == Timer_drop(inner, timers)
            IN  /\ d.timers = {} /\ d.inner.waker = None
                /\ inner.waker = None => (d.timers = timers /\ d.inner = inner))
    /\ [][(timerAlive /\ ~timerAlive') => (timers' = {} /\ inner'.waker = None)]_vars
    /\ [][(timerAlive /\ ~timerAlive' /\ inner.waker = None) => timers' = timers]_vars

\* The task of a TimerActionOnce was cancelled while it waited on its timer and
\* the handle was rearmed afterwards: the Timer is registered and holds the
\* waker, and its drop, which the executor is about to perform, removes the
\* registration and clears the waker.
C16_Witness ==
    /\ kind = "once" /\ task.pc = "timer" /\ task.closed /\ task.scheduled
    /\ timerAlive /\ inner.waker = TaskWaker
    /\ timers = {[id |-> inner.id, when |-> inner.when, waker |-> TaskWaker]}
    /\ Timer_drop(inner, timers) = [inner |-> [inner EXCEPT !.waker = None], timers |-> {}]

\* A TimerActionRepeat whose generator returns a delay genLimit times and then
\* None, and whose handle has not been destroyed or cancelled.
StoppingLoop == kind = "repeat" /\ genLimit # Forever /\ ~destroyed

\* C17: for a TimerActionRepeat whose generator returns a delay n times and
\* then None, and which is never destroyed: the generator is invoked exactly
\* n + 1 times, the loop waits on exactly n timers, each to its expiry, the
\* loop task terminates, and join() yields Some(()): a join() that has
\* resolved yielded Some(()), and one that is pending resolves once the loop
\* has ended.
C17_RepeatRunsToStop ==
    /\ [](StoppingLoop =>
            /\ genCalls <= genLimit + 1 /\ waits <= genLimit
            /\ task.pc = "done" => (genCalls = genLimit + 1 /\ waits = genLimit
                                    /\ timers = {} /\ ~timerAlive)
            /\ (task.pc = "done" /\ genLimit > 0) =>
                   (fired # <<>> /\ fired[1].at >= fired[1].when
                    /\ fired[1].at >= created + genLimit * genPeriod)
            /\ joinResult = "Some" => task.pc = "done"
            /\ handle = "joined" => joinResult = "Some")
    /\ [](StoppingLoop => <>(destroyed \/ (task.pc = "done" /\ handle # "joining")))

\* The generator returned a delay MaxRepeats times and then None: it was
\* invoked MaxRepeats + 1 times, the loop waited on MaxRepeats timers and
\* ended, and join() yielded Some(()).
C17_Witness ==
    /\ StoppingLoop /\ genLimit = MaxRepeats
    /\ task.pc = "done" /\ genCalls = MaxRepeats + 1 /\ waits = MaxRepeats
    /\ handle = "joined" /\ joinResult = "Some"

\* cancel() on a TimerActionRepeat (destroy() and the join() after it) has
\* resolved.
CancelResolved == kind = "repeat" /\ destroyed /\ handle = "joined"

\* C18: once cancel() on a TimerActionRepeat has resolved, the generator is
\* never invoked again, also when it always returns a delay: in every later
\* step the invocation count, the number of timers waited on and the loop task
\* stay as they are; the loop task has ended or its future has been dropped,
\* it is not queued, and no registration is left that could wake it.
C18_NoInvocationAfterCancel ==
    /\ [][CancelResolved =>
            (genCalls' = genCalls /\ waits' = waits /\ task' = task
             /\ timers' = timers)]_vars
    /\ [](CancelResolved =>
            (Finished(task) /\ ~task.scheduled /\ timers = {} /\ ~timerAlive))

\* cancel() resolved on a loop that waited in its second iteration, of a
\* generator that never returns None; the clock has since passed the expiry
\* the loop was waiting for, and the count is still 2.
C18_Witness ==
    /\ CancelResolved /\ genLimit = Forever /\ joinResult = "None"
    /\ task.pc = "dropped" /\ genCalls = 2 /\ waits = 2
    /\ now > inner.when

\* The loop of the TimerActionRepeat ended because the generator returned None.
LoopStopped ==
    /\ kind = "repeat" /\ task.pc = "done"
    /\ genLimit # Forever /\ genCalls = genLimit + 1

\* destroy() or cancel() was called on a TimerActionRepeat whose generator had
\* not returned None.
DestroyedBeforeStop == kind = "repeat" /\ destroyed /\ task.pc # "done"

\* C19: join() on a TimerActionRepeat yields Some(()) if and only if the loop
\* ended because the generator returned None; if destroy() was called before
\* that (also before the loop task was ever polled), the loop never ends that
\* way and join() yields None.
C19_RepeatJoinResult ==
    /\ []((kind = "repeat" /\ task.pc = "done") => LoopStopped)
    /\ []((kind = "repeat" /\ handle = "joined") =>
            /\ joinResult = "Some" <=> LoopStopped
            /\ joinResult = "None" <=> (destroyed /\ task.pc = "dropped"))
    /\ [][DestroyedBeforeStop => DestroyedBeforeStop']_vars
    /\ [](DestroyedBeforeStop => joinResult # "Some")
    /\ []((DestroyedBeforeStop /\ handle = "joining") => <>(joinResult = "None"))

\* destroy() was called before the loop task was ever polled: the generator
\* was not invoked and join() yielded None.
C19_Witness ==
    /\ DestroyedBeforeStop /\ handle = "joined" /\ joinResult = "None"
    /\ task.pc = "dropped" /\ genCalls = 0 /\ waits = 0

\* A TimerActionOnce constructed with a zero delay and not rearmed while its
\* timer await was outstanding.
ZeroDelay == kind = "once" /\ origWhen = created /\ promised = <<>>

\* C20: an instant that is not in the future is floored to a zero delay rather
\* than rejected: do_at_into with an instant <= now is do_in_into with delay 0
\* (the expiry is the time of the call), and with a zero delay the first poll
\* of the spawned task completes the timer and starts the action: the task
\* never suspends on the timer, no registration is made, and the action starts
\* under a fair executor whether or not the clock advances.
C20_PastInstantIsZeroDelay ==
    /\ [][\A w \in 0..now, n \in 1..MaxSteps, live \in BOOLEAN :
            TimerActionOnce_do_at_into(w, n, live) =>
                (TimerActionOnce_do_in_into(0, n, live) /\ origWhen' = now)]_vars
    /\ [](ZeroDelay =>
            /\ task.pc # "timer" /\ timers = {} /\ inner.waker = None
            /\ started = 1 => (fired[1].when = created /\ fired[1].out = <<created>>))
    /\ [](ZeroDelay => <>(started = 1 \/ destroyed \/ promised # <<>>))

\* An action scheduled with a zero delay when instants in the past existed: it
\* ran at the time of the call, on the first poll of its task, and nothing is
\* or was registered.
C20_Witness ==
    /\ ZeroDelay /\ created > 0 /\ now = created /\ ~destroyed
    /\ started = 1 /\ fired = <<[at |-> created, when |-> created, out |-> <<created>>]>>
    /\ timers = {} /\ inner.waker = None

\* C21: destroy() on a TimerActionOnce cancels only the task the constructor
\* spawned: a task the action spawned and detached before destroy() is left
\* as it is by destroy() and cancel(), is never dropped afterwards, and runs to
\* its own end under a fair executor.
C21_DetachedSpawnSurvives ==
    /\ [][(Destroy \/ Cancel) => child' = child]_vars
    /\ [][child = "running" => child' \in {"running", "done"}]_vars
    /\ [][child = "done" => child' = "done"]_vars
    /\ [](child = "running" => <>(child = "done"))

\* The action was cancelled at an await after it had spawned and detached a
\* task: its own future has been dropped, the detached task is still there.
C21_Witness ==
    /\ kind = "once" /\ destroyed /\ task.pc = "dropped"
    /\ started = 1 /\ effects < nsteps
    /\ child = "running"

StoredExpiry == IF promised = <<>> THEN origWhen ELSE promised[1].until

\* C23: a Timer that completes yields its stored expiry, as set by new or by
\* the latest reset / rearm, and not the time of the poll that completes it;
\* the completing poll removes the id from the reactor, whether the id is
\* registered at that poll or not.
C23_YieldsStoredExpiry ==
    /\ fired # <<>> => fired[1].out = <<fired[1].when>>
    /\ (kind = "timer" /\ fired # <<>>) => fired[1].out = <<StoredExpiry>>
    /\ (kind = "timer" /\ timerAlive) => inner.when = StoredExpiry
    /\ (kind \in {"timer", "once"} /\ timerAlive /\ now >= inner.when) =>
           \A w \in Wakers \cup {TaskWaker} :
               LET p == Timer_poll(inner, timers, w)
               IN  /\ p.ready /\ p.out = <<inner.when>>
                   /\ ~Registered(p.timers, inner.id)

\* A Timer that was reset completed in a poll later than its expiry and
\* yielded the expiry the reset stored.
C23_Witness ==
    /\ kind = "timer" /\ fired # <<>> /\ promised # <<>>
    /\ promised[1].until # origWhen
    /\ fired[1].at > promised[1].until
    /\ fired[1].out = <<promised[1].until>>

\* A spawned task that is suspended in the await of its Timer and was not
\* cancelled.
SuspendedInAwait == HasHandle /\ task.pc = "timer" /\ ~task.closed

\* C24: a spawned task suspended in its timer await and not cancelled is never
\* left without a wakeup: either the id is registered in the reactor with the
\* task's waker, or the task was woken and is queued; rearm calls and reactor
\* firings keep it so.
C24_NoLostWakeup ==
    SuspendedInAwait =>
        /\ inner.waker = TaskWaker
        /\ \/ \E r \in timers : r.id = HandleView.id /\ r.waker = TaskWaker
           \/ task.scheduled

\* The reactor fired the timer and queued the task; before the task ran, a
\* rearm registered the id again for a later expiry.
C24_Witness ==
    /\ kind = "once" /\ SuspendedInAwait
    /\ task.scheduled /\ Registered(timers, inner.id)
    /\ promised # <<>> /\ inner.when > now

\* C25: whenever an id is registered in the reactor, the Inner of the Timer
\* with that id holds a waker, the registration carries that waker, and the
\* registered expiry is the expiry the Inner currently holds; no poll, reset,
\* rearm, destroy or drop leaves a registration with a stale expiry.
C25_RegistrationIsCurrent ==
    \A r \in timers :
        /\ timerAlive /\ r.id = inner.id
        /\ inner.waker # None /\ r.waker = inner.waker
        /\ r.when = inner.when

\* A suspended Timer was reset to another expiry that is still ahead: the one
\* registration of its id carries the new expiry.
C25_Witness ==
    /\ timerAlive /\ promised # <<>>
    /\ inner.when = promised[1].until /\ inner.when # origWhen /\ inner.when > now
    /\ timers = {[id |-> inner.id, when |-> inner.when, waker |-> inner.waker]}

\* destroy() or cancel() was called on a TimerActionOnce whose task was
\* suspended in the timer await or had not been polled yet: the task was
\* cancelled before its await resolved.
CancelledInAwait == kind = "once" /\ destroyed /\ task.closed /\ fired = <<>>

\* C26 as stated: after destroy() on a TimerActionOnce whose task was
\* suspended in the timer await, the reactor never again holds a registration
\* for the id and the action never starts, whatever rearm calls follow, also
\* before the future of the cancelled task has been dropped.
C26_NoRegistrationAfterDestroy ==
    CancelledInAwait =>
        /\ ~Registered(timers, inner.id)
        /\ started = 0 /\ effects = 0

\* C26, amended: after destroy() on a TimerActionOnce whose task was suspended
\* in the timer await, no later rearm makes the action start.  A rearm called
\* before the future of the cancelled task has been dropped does register the
\* id again, because the Timer still holds the waker; that registration is
\* held only while the future is queued for its drop, and once the future and
\* its Timer have been dropped no rearm registers the id.
C26_RearmCannotUndoDestroy ==
    /\ [](CancelledInAwait => (started = 0 /\ effects = 0))
    /\ []((CancelledInAwait /\ Registered(timers, inner.id)) =>
              /\ task.pc = "timer" /\ task.scheduled /\ timerAlive
              /\ inner.waker = TaskWaker)
    /\ []((CancelledInAwait /\ task.pc = "dropped") =>
              /\ timers = {} /\ inner.waker = None
              /\ \A d \in Durations : Inner_reset(inner, timers, d).timers = {})
    /\ [][CancelledInAwait => (CancelledInAwait' /\ started' = 0)]_vars

\* The handle was rearmed after destroy() and before the future of the
\* cancelled task was dropped: the id is registered again, with an expiry that
\* has been reached, and the action has not started.
C26_Witness ==
    /\ CancelledInAwait /\ task.pc = "timer"
    /\ Registered(timers, inner.id) /\ inner.when <= now
    /\ inner.when # origWhen
    /\ started = 0

====
